---- MODULE Spec2Model ----
(***************************************************************************)
(* A model of PlaidIntegration (src/src/integrations/plaid/                *)
(* plaidIntegration.ts): the paginated transaction fetch, the per-account  *)
(* normalize/reconcile pipeline of fetchAccount, and the local express     *)
(* server that addAccount starts for the credential handshake.             *)
(*                                                                         *)
(* Two families of variables: the state of the fetchAccount calls (one     *)
(* entry per call) and the state of one addAccount server instance.        *)
(* SpecFetch, SpecFetchPair and SpecPaging run the former (one call on a   *)
(* consistent provider, two interleaved calls, one call on any provider),  *)
(* SpecServer the latter.                                                  *)
(***************************************************************************)
EXTENDS Integers, Sequences, FiniteSets, TLC

\* ------------------------------------------------------------------------
\* Optional values. None stands for a value that is null or undefined where
\* the code treats the two alike (a || b, error != null, reads of optional
\* fields), and for undefined alone in a request body, where a null is a
\* present value (!== undefined).
\* ------------------------------------------------------------------------
None == << >>
Some(v) == <<v>>
IsNone(o) == o = << >>
Get(o) == o[1]

\* Whether an optional string is falsy: null, undefined or the empty string.
Falsy(o) == IsNone(o) \/ o = Some("")

\* A variant of OrElse that prefers the right value.
OrElseRight(a, b) == IF Falsy(b) THEN a ELSE b

\* `a || b` on two optional strings: the left one unless it is falsy.
OrElse(a, b) == IF Falsy(a) THEN b ELSE a

Min(a, b) == IF a < b THEN a ELSE b

\* ------------------------------------------------------------------------
\* Bounds of the model and program constants.
\* ------------------------------------------------------------------------
\* Largest total of the paging scenarios (two pages of Count records and
\* the beginning of a third).
MaxTotal == 1001
\* Longest transaction list and account list of the join scenarios.
MaxTx == 2
MaxSubAccounts == 2
\* How many requests the client sends to one server, and how many of them
\* may be POST /accounts.
MaxPosts == 2
MaxListings == 1
\* How many of the client's requests may be POST /exchangeAccessToken.
MaxReissues == 1
\* How many page requests of one fetchPagedTransactions call the model
\* follows; a loop that would go on after that many is left running.
MaxRequests == 4

\* options.count of fetchPagedTransactions.
Count == 500

PLAID == "plaid"

\* The fetchAccount calls of the model.
Calls == {"A", "B"}

AccountIds == {"acc1", "acc2", "acc3"}

VARIABLES
    \* ---- fetchAccount / fetchPagedTransactions, per call ----
    fpc,        \* where the call stands
    provider,   \* the provider's data for the call's token and date range
    options,    \* options = { count, offset }
    accounts,   \* `accounts` of fetchPagedTransactions: the first response, accumulating
    requests,   \* the getTransactions requests issued so far
    paged,      \* how the promise of fetchPagedTransactions settled
    args,       \* the arguments of the call: the account's token, the date range
    answered,   \* how many of the requests have been answered (response or failure)
    rejection,  \* the error the promise of fetchPagedTransactions was rejected with
    outcome,    \* how the promise of fetchAccount settled
    result,     \* the value the promise of fetchAccount settled with
    flog        \* messages logged by the call

fetchVars == <<fpc, provider, options, accounts, requests, paged, args, answered,
              rejection, outcome, result, flog>>

VARIABLES
    \* ---- one addAccount call and its express server ----
    running,    \* whether the process that called addAccount is alive
    listening,  \* whether the http.Server accepts new connections
    closeCalls, \* how often server.close() has been invoked
    posts,      \* how many requests the client has sent
    inbox,      \* requests accepted by the server whose handler has not run yet
    replied,    \* how many responses the synchronous handlers have sent
    exchanging, \* client.exchangePublicToken calls whose callback has not run yet
    promise,    \* the state of the promise addAccount returned
    store,      \* the Credential Store: config.accounts as updateConfig persists it
    thisConfig, \* this.config.accounts
    logged,     \* messages logged by the handlers
    uncaught,   \* whether an exception has escaped a callback
    listings,   \* the runs of the /accounts handler
    reissues    \* the runs of the /exchangeAccessToken handler

serverVars == <<running, listening, closeCalls, posts, inbox, replied, exchanging, promise,
                store, thisConfig, logged, uncaught, listings, reissues>>

vars == <<fetchVars, serverVars>>

\* The server variables when addAccount is never called.
ServerUnused ==
    /\ running = TRUE
    /\ listening = FALSE
    /\ closeCalls = 0
    /\ posts = 0
    /\ inbox = << >>
    /\ replied = 0
    /\ exchanging = 0
    /\ promise = "pending"
    /\ store = << >>
    /\ thisConfig = << >>
    /\ logged = {}
    /\ uncaught = FALSE
    /\ listings = << >>
    /\ reissues = << >>

\* ------------------------------------------------------------------------
\* The provider's raw records (plaid.TransactionsResponse). Fields the code
\* only copies (mask, date, amount, transaction_type, pending, the further
\* location and balance fields) are left out of the records.
\* ------------------------------------------------------------------------
Location == [city |-> "Springfield"]

\* The currency codes of the i-th record of a generated list: each code is
\* a string, absent, or the empty string, and all nine combinations occur
\* for each account id.
IsoOf(i) ==
    CASE (i \div 3) % 3 = 0 -> Some("USD")
      [] (i \div 3) % 3 = 1 -> None
      [] OTHER -> Some("")
UnofficialOf(i) ==
    CASE (i \div 9) % 3 = 0 -> None
      [] (i \div 9) % 3 = 1 -> Some("BTC")
      [] OTHER -> Some("")

RawTransaction(id, accountId, category, iso, unofficial) ==
    [transaction_id |-> id, account_id |-> accountId, name |-> "txn",
     category |-> category, location |-> Some(Location),
     iso_currency_code |-> iso, unofficial_currency_code |-> unofficial]

RawAccount(accountId, subtype, balances) ==
    [account_id |-> accountId, name |-> "Bank", official_name |-> "Checking",
     subtype |-> subtype, type |-> "depository", balances |-> balances]

Balances(iso, unofficial) ==
    [current |-> 100, iso_currency_code |-> iso, unofficial_currency_code |-> unofficial]

Categories == <<"Food", "Coffee">>

\* What the provider does for one token and date range: the records it
\* holds (list), the accounts and the total it reports at offset 0, the
\* accounts and the total it reports at any later offset, and the most
\* records it returns for one request.
Provider(list, accts, total, laterAccounts, laterTotal, limit) ==
    [list |-> list, accounts |-> accts, total |-> total,
     laterAccounts |-> laterAccounts, laterTotal |-> laterTotal, limit |-> limit]

\* A consistent provider: every response reports the length of the list as
\* the total and the same accounts, and a page is as long as the request's
\* count allows.
Consistent(list, accts) == Provider(list, accts, Len(list), accts, Len(list), Count)

IsConsistent(p) ==
    /\ p.total = Len(p.list)
    /\ p.laterTotal = Len(p.list)
    /\ p.laterAccounts = p.accounts
    /\ p.limit >= Count

\* Paging scenarios: a list of T records, every third of which belongs to an
\* account (acc2) that is not among the accounts of the response, and an
\* account (acc3) that owns no record.
PagingList(T) ==
    [i \in 1..T |->
        RawTransaction(i, IF i % 3 = 0 THEN "acc2" ELSE "acc1", Some(Categories),
                       IsoOf(i), UnofficialOf(i))]

PagingAccounts ==
    << RawAccount("acc1", Some("checking"), Some(Balances(Some("USD"), Some("BTC")))),
       RawAccount("acc3", Some(""), Some(Balances(Some(""), Some("BTC")))) >>

PagingScenarios ==
    { Consistent(PagingList(T), PagingAccounts) : T \in 0..MaxTotal }

\* Join scenarios: short lists in which every record chooses its account id
\* (acc3 matches no account of the response) and may lack its category, and
\* account lists that may repeat an id, be empty, or hold an account
\* without balances.
TxVariants ==
    { [account_id |-> a, category |-> Some(Categories)] : a \in AccountIds }
        \cup { [account_id |-> "acc1", category |-> None] }

AccountVariants ==
    { RawAccount("acc1", Some("checking"), Some(Balances(Some("USD"), None))),
      RawAccount("acc2", None, Some(Balances(None, Some("")))),
      RawAccount("acc1", None, None) }

SeqsUpTo(S, n) == UNION { [1..k -> S] : k \in 0..n }

JoinList(choice) ==
    [i \in 1..Len(choice) |->
        RawTransaction(i, choice[i].account_id, choice[i].category,
                       IsoOf(i), UnofficialOf(i))]

JoinScenarios ==
    { Consistent(JoinList(choice), accts) :
        choice \in SeqsUpTo(TxVariants, MaxTx),
        accts \in SeqsUpTo(AccountVariants, MaxSubAccounts) }

Scenarios == PagingScenarios \cup JoinScenarios

\* The unused scenario of a call that is never made.
NoScenario == Consistent(<< >>, << >>)

\* Providers that need not be consistent: the total of the first response
\* may overstate or understate the list, later responses may report another
\* total and other accounts, and pages may be shorter than asked for.
ListLengths == {0, 300, 700, MaxTotal}
ShortPage == 300

ProvidersWith(n, total) ==
    { Provider(PagingList(n), PagingAccounts, total, laterAccounts, laterTotal, limit) :
        laterAccounts \in {PagingAccounts, << >>},
        laterTotal \in {total, 0, 5000},
        limit \in {ShortPage, Count} }

PagingProviders ==
    UNION { ProvidersWith(n, total) :
              n \in ListLengths, total \in ListLengths \cup {600, MaxTotal + 100} }

\* client.getTransactions: the request at `offset` returns the records
\* offset .. min(offset + count, offset + limit, length) - 1 (0-based) of the
\* provider's list, none when the offset is past the end, with the accounts
\* and the total the provider reports at that offset.
GetTransactions(p, offset, count) ==
    [accounts |-> IF offset = 0 THEN p.accounts ELSE p.laterAccounts,
     transactions |->
        SubSeq(p.list, offset + 1, Min(offset + Min(count, p.limit), Len(p.list))),
     total_transactions |-> IF offset = 0 THEN p.total ELSE p.laterTotal]

\* ------------------------------------------------------------------------
\* fetchPagedTransactions
\* ------------------------------------------------------------------------
\* A variant of InitialOptions with a smaller page.
InitialOptionsSmallPage == [count |-> 100, offset |-> 0]

\* let options = { count: 500, offset: 0 }
InitialOptions == [count |-> Count, offset |-> 0]

\* A variant of AdvanceOffset that leaves the offset where it is.
AdvanceOffsetStays(opts) == opts

\* options.offset += options.count
AdvanceOffset(opts) == [opts EXCEPT !.offset = opts.offset + opts.count]

\* A variant of AppendPage that puts the new page in front of the accumulator.
AppendPagePrepends(acc, next_page) ==
    [acc EXCEPT !.transactions = next_page.transactions \o acc.transactions]

\* A variant of AppendPage that takes the total and the accounts of the new
\* page.
AppendPageTakesLater(acc, next_page) ==
    [next_page EXCEPT !.transactions = acc.transactions \o next_page.transactions]

\* accounts.transactions = accounts.transactions.concat(next_page.transactions)
AppendPage(acc, next_page) ==
    [acc EXCEPT !.transactions = acc.transactions \o next_page.transactions]

\* Variants of LoopCondition: one that never enters the loop, one that goes
\* on when the accumulated count equals the total.
LoopConditionNever(acc) == FALSE
LoopConditionInclusive(acc) == Len(acc.transactions) <= acc.total_transactions

\* while (accounts.transactions.length < accounts.total_transactions)
LoopCondition(acc) == Len(acc.transactions) < acc.total_transactions

\* The response object before the first response has arrived.
NoResponse == [accounts |-> << >>, transactions |-> << >>, total_transactions |-> 0]

\* ------------------------------------------------------------------------
\* fetchAccount: normalize and reconcile
\* ------------------------------------------------------------------------
\* category.join(' - '): the levels in order, the separator between them.
JoinWith(sep, levels) ==
    [i \in 1..(IF Len(levels) = 0 THEN 0 ELSE 2 * Len(levels) - 1) |->
        IF i % 2 = 1 THEN levels[(i + 1) \div 2] ELSE sep]

\* data.accounts.map(account => ({ ... })): reading account.balances.current
\* throws a TypeError when the account carries no balances.
AccountThrows(account) == IsNone(account.balances)

ToAccount(account) ==
    [integration |-> PLAID,
     accountId |-> account.account_id,
     institution |-> account.name,
     account |-> account.official_name,
     type |-> OrElse(account.subtype, Some(account.type)),
     current |-> Get(account.balances).current,
     currency |-> OrElse(Get(account.balances).iso_currency_code,
                         Get(account.balances).unofficial_currency_code)]

\* data.transactions.map(transaction => ({ ... })): transaction.category.join
\* and transaction.location.address throw a TypeError on a missing category
\* or location.
TransactionThrows(transaction) ==
    IsNone(transaction.category) \/ IsNone(transaction.location)

ToTransaction(transaction) ==
    [integration |-> PLAID,
     name |-> transaction.name,
     currency |-> OrElse(transaction.iso_currency_code,
                         transaction.unofficial_currency_code),
     accountId |-> transaction.account_id,
     transactionId |-> transaction.transaction_id,
     category |-> JoinWith(" - ", Get(transaction.category)),
     city |-> Get(transaction.location).city]

\* A variant of Matches that attaches every transaction to every account.
MatchesAny(transaction, account) == TRUE

\* transaction.accountId === account.accountId
Matches(transaction, account) == transaction.accountId = account.accountId

\* { ...transaction, institution: account.institution, account: account.account }
Denormalize(transaction, account) ==
    [integration |-> transaction.integration,
     name |-> transaction.name,
     currency |-> transaction.currency,
     accountId |-> transaction.accountId,
     transactionId |-> transaction.transactionId,
     category |-> transaction.category,
     city |-> transaction.city,
     institution |-> account.institution,
     account |-> account.account]

\* accounts.map(account => ({ ...account, transactions: transactions.filter(..).map(..) }))
Attach(accts, transactions) ==
    LET WithTransactions(account) ==
            LET Own(t) == Matches(t, account)
                Mine(t) == Denormalize(t, account)
            IN  [integration |-> account.integration,
                 accountId |-> account.accountId,
                 institution |-> account.institution,
                 account |-> account.account,
                 type |-> account.type,
                 current |-> account.current,
                 currency |-> account.currency,
                 transactions |->
                    LET own == SelectSeq(transactions, Own)
                    IN  [j \in 1..Len(own) |-> Mine(own[j])]]
    IN  [k \in 1..Len(accts) |-> WithTransactions(accts[k])]

\* Whether the .then callback throws on `data`.
ThenThrows(data) ==
    \/ \E i \in 1..Len(data.accounts) : AccountThrows(data.accounts[i])
    \/ \E i \in 1..Len(data.transactions) : TransactionThrows(data.transactions[i])

\* What the .then callback returns on `data` when it does not throw.
ThenValue(data) ==
    Attach([k \in 1..Len(data.accounts) |-> ToAccount(data.accounts[k])],
           [i \in 1..Len(data.transactions) |-> ToTransaction(data.transactions[i])])

\* A variant of CatchResult in which the handler rethrows.
CatchResultRethrows == [state |-> "rejected", value |-> << >>]

\* .catch(error => { logError(...); return [] }): the promise of fetchAccount
\* resolves with the empty list.
CatchResult == [state |-> "resolved", value |-> << >>]

\* ------------------------------------------------------------------------
\* The steps of one fetchAccount call
\* ------------------------------------------------------------------------
\* What the caller passes as the date range. startDate is within the last
\* five months, older than that, or an invalid Date; endDate is a valid or
\* an invalid Date.
DateInputs == [start : {"recent", "old", "invalid"}, end : {"valid", "invalid"}]

\* startDate < subMonths(new Date(), 5): false on an invalid Date.
OlderThanFiveMonths(dates) == dates.start = "old"

\* Whether format(startDate, dateFormat) or format(endDate, dateFormat)
\* throws a RangeError: it does on an invalid Date.
FormatThrows(dates) == dates.start = "invalid" \/ dates.end = "invalid"

WARN_HISTORY == "Transaction history older than 6 months may not be available for some institutions."

\* `Fetched ${data.accounts.length} sub-accounts and
\* ${data.total_transactions} transactions.`
InfoFetched(data) ==
    "Fetched " \o ToString(Len(data.accounts)) \o " sub-accounts and "
        \o ToString(data.total_transactions) \o " transactions."

\* `Error fetching account ${accountConfig.id}.`
ErrorFetching(accountConfig) == "Error fetching account " \o accountConfig.id \o "."

\* The accountConfig each call is made with, and the dates as format()
\* writes them ('yyyy-MM-dd').
AccountConfig(c) ==
    IF c = "A" THEN [id |-> "itemX", token |-> "accA"]
    ELSE [id |-> "itemY", token |-> "accB"]

FormatRange(dates) ==
    [start |-> IF dates.start = "old" THEN "2025-01-01" ELSE "2026-09-01",
     end |-> "2026-10-01"]

NoArgs == [token |-> "", dates |-> [start |-> "", end |-> ""]]

\* this.client.getTransactions(accountConfig.token, start, end, options)
PageRequest(a, opts) ==
    [token |-> a.token, start |-> FormatRange(a.dates).start,
     end |-> FormatRange(a.dates).end, options |-> opts]

\* The errors a page request may fail with, and the error format() throws
\* on an invalid Date.
PageErrors == {"ITEM_LOGIN_REQUIRED", "RATE_LIMIT_EXCEEDED"}
RANGE_ERROR == "RangeError: Invalid time value"

\* A variant of PagedCatch that hands the pages fetched so far to the caller.
PagedCatchResolvesPartial(acc, e) == [state |-> "resolved", value |-> acc]

\* catch (e) { return reject(e) }
PagedCatch(acc, e) == [state |-> "rejected", value |-> e]

\* fetchAccount is called: the history warning when the start date is old,
\* then fetchPagedTransactions up to its first await (the first request is
\* in flight), or its rejection when formatting either date throws. The two
\* tests are independent: an old start with an invalid end warns and rejects.
FetchAccount(c, dates) ==
    /\ fpc[c] = "idle"
    /\ args' = [args EXCEPT ![c] = [token |-> AccountConfig(c).token, dates |-> dates]]
    /\ flog' = [flog EXCEPT ![c] =
                    IF OlderThanFiveMonths(dates) THEN @ \cup {WARN_HISTORY} ELSE @]
    /\ IF FormatThrows(dates)
       THEN /\ paged' = [paged EXCEPT ![c] = "rejected"]
            /\ rejection' = [rejection EXCEPT ![c] = Some(RANGE_ERROR)]
            /\ fpc' = [fpc EXCEPT ![c] = "catch"]
            /\ UNCHANGED <<options, requests>>
       ELSE /\ options' = [options EXCEPT ![c] = InitialOptions]
            /\ requests' = [requests EXCEPT ![c] = <<PageRequest(args'[c], InitialOptions)>>]
            /\ fpc' = [fpc EXCEPT ![c] = "await_first"]
            /\ UNCHANGED <<paged, rejection>>
    /\ UNCHANGED <<provider, accounts, answered, outcome, result>>
    /\ UNCHANGED serverVars

\* The response to the request in flight arrives: the first response becomes
\* `accounts`, a later one is appended to it; then the loop either issues the
\* next request or the promise of fetchPagedTransactions resolves. A loop
\* that goes on after MaxRequests requests is not followed further.
PageResponse(c) ==
    /\ fpc[c] \in {"await_first", "await_next"}
    /\ LET response == GetTransactions(provider[c], options[c].offset, options[c].count)
           acc == IF fpc[c] = "await_first" THEN response
                  ELSE AppendPage(accounts[c], response)
       IN  /\ LoopCondition(acc) => Len(requests[c]) < MaxRequests
           /\ accounts' = [accounts EXCEPT ![c] = acc]
           /\ IF LoopCondition(acc)
              THEN /\ options' = [options EXCEPT ![c] = AdvanceOffset(@)]
                   /\ requests' = [requests EXCEPT ![c] =
                                      Append(@, PageRequest(args[c], AdvanceOffset(options[c])))]
                   /\ fpc' = [fpc EXCEPT ![c] = "await_next"]
                   /\ UNCHANGED paged
              ELSE /\ paged' = [paged EXCEPT ![c] = "resolved"]
                   /\ fpc' = [fpc EXCEPT ![c] = "then"]
                   /\ UNCHANGED <<options, requests>>
    /\ answered' = [answered EXCEPT ![c] = @ + 1]
    /\ UNCHANGED <<provider, args, rejection, outcome, result, flog>>
    /\ UNCHANGED serverVars

\* The request in flight fails with error e: the catch block of
\* fetchPagedTransactions settles its promise.
PageFailure(c, e) ==
    /\ fpc[c] \in {"await_first", "await_next"}
    /\ answered' = [answered EXCEPT ![c] = @ + 1]
    /\ LET settled == PagedCatch(accounts[c], e)
       IN  /\ paged' = [paged EXCEPT ![c] = settled.state]
           /\ IF settled.state = "rejected"
              THEN /\ rejection' = [rejection EXCEPT ![c] = Some(settled.value)]
                   /\ fpc' = [fpc EXCEPT ![c] = "catch"]
              ELSE /\ fpc' = [fpc EXCEPT ![c] = "then"]
                   /\ UNCHANGED rejection
    /\ UNCHANGED <<provider, options, accounts, requests, args, outcome, result, flog>>
    /\ UNCHANGED serverVars

\* The .then callback of fetchAccount on the resolved data: it returns the
\* reconciled accounts, or throws and leaves the rejection to .catch.
ThenCallback(c) ==
    /\ fpc[c] = "then"
    /\ IF ThenThrows(accounts[c])
       THEN /\ fpc' = [fpc EXCEPT ![c] = "catch"]
            /\ UNCHANGED <<outcome, result, flog>>
       ELSE /\ fpc' = [fpc EXCEPT ![c] = "done"]
            /\ outcome' = [outcome EXCEPT ![c] = "resolved"]
            /\ result' = [result EXCEPT ![c] = ThenValue(accounts[c])]
            /\ flog' = [flog EXCEPT ![c] = @ \cup {InfoFetched(accounts[c])}]
    /\ UNCHANGED <<provider, options, accounts, requests, paged, args, answered, rejection>>
    /\ UNCHANGED serverVars

\* The .catch callback of fetchAccount.
CatchCallback(c) ==
    /\ fpc[c] = "catch"
    /\ flog' = [flog EXCEPT ![c] = @ \cup {ErrorFetching(AccountConfig(c))}]
    /\ fpc' = [fpc EXCEPT ![c] = "done"]
    /\ outcome' = [outcome EXCEPT ![c] = CatchResult.state]
    /\ result' = [result EXCEPT ![c] = CatchResult.value]
    /\ UNCHANGED <<provider, options, accounts, requests, paged, args, answered, rejection>>
    /\ UNCHANGED serverVars

\* The fetch variables of calls that have not begun, each with the provider
\* data `prov` assigns to it and at the position `pcs` gives.
FetchStart(pcs, prov) ==
    /\ fpc = pcs
    /\ provider = prov
    /\ options = [c \in Calls |-> InitialOptions]
    /\ accounts = [c \in Calls |-> NoResponse]
    /\ requests = [c \in Calls |-> << >>]
    /\ paged = [c \in Calls |-> "pending"]
    /\ args = [c \in Calls |-> NoArgs]
    /\ answered = [c \in Calls |-> 0]
    /\ rejection = [c \in Calls |-> None]
    /\ outcome = [c \in Calls |-> "pending"]
    /\ result = [c \in Calls |-> << >>]
    /\ flog = [c \in Calls |-> {}]

\* The fetch variables when no call is ever made.
FetchUnused ==
    FetchStart([c \in Calls |-> "unused"], [c \in Calls |-> NoScenario])

\* Call A alone, on provider data p.
OnlyA(p) ==
    FetchStart([c \in Calls |-> IF c = "A" THEN "idle" ELSE "unused"],
               [c \in Calls |-> IF c = "A" THEN p ELSE NoScenario])

InitFetch ==
    /\ ServerUnused
    /\ \E p \in Scenarios : OnlyA(p)

NextFetch ==
    \E c \in Calls :
        \/ \E dates \in DateInputs : FetchAccount(c, dates)
        \/ PageResponse(c)
        \/ \E e \in PageErrors : PageFailure(c, e)
        \/ ThenCallback(c)
        \/ CatchCallback(c)

SpecFetch == InitFetch /\ [][NextFetch]_vars

\* Two calls, for two accounts, whose steps interleave in any order. Each
\* is given a provider of two pages, one of three pages, or one whose data
\* makes the .then callback throw.
PairScenarios ==
    { Consistent(PagingList(Count + 1), PagingAccounts),
      Consistent(PagingList(MaxTotal), PagingAccounts),
      Consistent(JoinList(<< [account_id |-> "acc1", category |-> None] >>),
                 << RawAccount("acc1", None, Some(Balances(None, None))) >>) }

InitFetchPair ==
    /\ ServerUnused
    /\ \E prov \in [Calls -> PairScenarios] :
          FetchStart([c \in Calls |-> "idle"], prov)

SpecFetchPair == InitFetchPair /\ [][NextFetch]_vars

\* ------------------------------------------------------------------------
\* Properties of the fetch pipeline
\* ------------------------------------------------------------------------

\* C1: against a consistent provider with any total T >= 0, the promise of
\* fetchPagedTransactions resolves with exactly T transactions, record i of
\* the provider's list at position i: no duplicate, no gap, no reordering
\* across pages.
PagedResultComplete ==
    \A c \in Calls :
        paged[c] = "resolved" =>
            /\ Len(accounts[c].transactions) = Len(provider[c].list)
            /\ Len(accounts[c].transactions) = accounts[c].total_transactions
            /\ \A i \in 1..Len(provider[c].list) :
                    accounts[c].transactions[i] = provider[c].list[i]

\* C1 happens: a fetch of three pages, the last one shorter than a page, has
\* resolved.
PagedResultCompleteWitness ==
    /\ paged["A"] = "resolved"
    /\ Len(requests["A"]) = 3
    /\ Len(provider["A"].list) % Count # 0
    /\ Len(accounts["A"].transactions) > 2 * Count

\* Whether the pipeline of call c has failed: a page request failed (or the
\* dates could not be formatted), or the .then callback has run and thrown
\* on the data.
PipelineFailed(c) ==
    \/ paged[c] = "rejected"
    \/ paged[c] = "resolved" /\ fpc[c] # "then" /\ ThenThrows(accounts[c])

\* C2: fetchAccount never rejects: after the failure of any page request,
\* and after any exception raised while normalizing or reconciling, the
\* .catch handler is what runs next, and once it has run the promise of
\* fetchAccount is resolved with the empty list and the error is logged.
FetchAccountNeverRejects ==
    \A c \in Calls :
        /\ outcome[c] # "rejected"
        /\ PipelineFailed(c) => fpc[c] \in {"catch", "done"}
        /\ (PipelineFailed(c) /\ fpc[c] = "done") =>
                /\ outcome[c] = "resolved"
                /\ result[c] = << >>
                /\ ErrorFetching(AccountConfig(c)) \in flog[c]

\* C2 happens: the second page request of a call failed and the call has
\* settled.
FetchAccountNeverRejectsWitness ==
    /\ fpc["A"] = "done"
    /\ paged["A"] = "rejected"
    /\ Len(requests["A"]) = 2
    /\ Len(accounts["A"].transactions) = Count

\* The ids of the transactions of `batch` that carry account id `a`. A
\* record's transaction_id is its position in the provider's list, so the
\* batch order is the order of the ids.
IdsOf(batch, a) ==
    { batch[i].transaction_id : i \in { j \in 1..Len(batch) : batch[j].account_id = a } }

\* C3: join correctness. When fetchAccount resolves from its .then callback,
\* the result holds one Account per raw account of the response, in the same
\* order, and the transactions of each are exactly the transactions of the
\* batch with that account id, in batch order (none when none matches); a
\* transaction whose account id matches no account is in no list.
JoinCorrect ==
    \A c \in Calls :
        (fpc[c] = "done" /\ InfoFetched(accounts[c]) \in flog[c]) =>
            LET raw == accounts[c].accounts
                batch == accounts[c].transactions
                out == result[c]
            IN  /\ Len(out) = Len(raw)
                /\ \A k \in 1..Len(raw) :
                      LET ts == out[k].transactions
                      IN  /\ out[k].accountId = raw[k].account_id
                          /\ \A j \in 1..Len(ts) : ts[j].accountId = raw[k].account_id
                          /\ \A j \in 1..(Len(ts) - 1) :
                                ts[j].transactionId < ts[j + 1].transactionId
                          /\ { ts[j].transactionId : j \in 1..Len(ts) }
                                = IdsOf(batch, raw[k].account_id)

\* C3 happens: a resolved call whose first account owns several
\* transactions, whose second account owns none, and whose batch holds a
\* transaction of an account that is not in the response.
JoinCorrectWitness ==
    /\ fpc["A"] = "done"
    /\ InfoFetched(accounts["A"]) \in flog["A"]
    /\ Len(result["A"]) = 2
    /\ Len(result["A"][1].transactions) >= 2
    /\ result["A"][2].transactions = << >>
    /\ \E i \in 1..Len(accounts["A"].transactions) :
          \A k \in 1..Len(accounts["A"].accounts) :
              accounts["A"].transactions[i].account_id # accounts["A"].accounts[k].account_id

\* One call against a provider that need not be consistent.
InitPaging ==
    /\ ServerUnused
    /\ \E p \in PagingProviders : OnlyA(p)

SpecPaging == InitPaging /\ [][NextFetch]_vars

\* Every request is answered: by its response, unless a failure comes
\* first.
SpecPagingFair == SpecPaging /\ \A c \in Calls : WF_vars(PageResponse(c))

\* What fetchAccount resolves to on a consistent provider when nothing
\* fails: every account of the provider with all of its transactions.
Reference(p) ==
    ThenValue([accounts |-> p.accounts, transactions |-> p.list,
               total_transactions |-> Len(p.list)])

\* C11: failure isolation across accounts. With the page requests of two
\* calls interleaved in any order, a call whose own pipeline does not fail
\* resolves to the complete account list of its own provider, whatever
\* happens to the other call; the failure of one call never keeps a response
\* from the other; and the page cursor of each call (offset, accumulator,
\* total) is a function of its own requests and its own provider alone.
FailureIsolation ==
    \A c \in Calls : \A d \in Calls \ {c} :
        /\ (fpc[c] = "done" /\ ~PipelineFailed(c)) =>
                /\ outcome[c] = "resolved"
                /\ result[c] = Reference(provider[c])
        /\ (PipelineFailed(d) /\ fpc[c] \in {"await_first", "await_next"}) =>
                ENABLED PageResponse(c)
        /\ requests[c] # << >> =>
                /\ options[c].offset = Count * (Len(requests[c]) - 1)
                /\ requests[c][Len(requests[c])].token = AccountConfig(c).token
        /\ (fpc[c] = "await_next" \/ paged[c] = "resolved") =>
                /\ accounts[c].total_transactions = Len(provider[c].list)
                /\ accounts[c].accounts = provider[c].accounts
                /\ accounts[c].transactions =
                      SubSeq(provider[c].list, 1,
                             Min(Len(provider[c].list),
                                 Count * (IF paged[c] = "resolved" THEN answered[c]
                                          ELSE Len(requests[c]) - 1)))

\* C11 happens: call B failed at its second page request and resolved with
\* the empty list, and call A has resolved with its three pages.
FailureIsolationWitness ==
    /\ fpc["B"] = "done"
    /\ paged["B"] = "rejected"
    /\ Len(requests["B"]) = 2
    /\ result["B"] = << >>
    /\ fpc["A"] = "done"
    /\ InfoFetched(accounts["A"]) \in flog["A"]
    /\ Len(requests["A"]) = 3
    /\ Len(result["A"][1].transactions) > Count

\* Whether an optional string carries a code: a field that is null,
\* undefined or the empty string carries none.
Carries(o) == ~IsNone(o) /\ o # Some("")

\* Whether `currency` is what a record with these two codes resolves to.
Resolves(iso, unofficial, currency) ==
    /\ Carries(iso) => currency = iso
    /\ (~Carries(iso) /\ Carries(unofficial)) => currency = unofficial
    /\ (~Carries(iso) /\ ~Carries(unofficial)) => ~Carries(currency)

\* C12: currency resolution, for accounts and for transactions. A raw
\* record that carries an ISO currency code resolves to that code, also when
\* it carries an unofficial code as well; one that carries only an
\* unofficial code resolves to the unofficial code; one that carries neither
\* resolves to no code. A code field that holds the empty string carries no
\* code, as one that is null or undefined.
CurrencyResolved ==
    \A c \in Calls :
        (fpc[c] = "done" /\ InfoFetched(accounts[c]) \in flog[c]) =>
            \A k \in 1..Len(result[c]) :
                /\ LET balances == Get(accounts[c].accounts[k].balances)
                   IN  Resolves(balances.iso_currency_code,
                                balances.unofficial_currency_code,
                                result[c][k].currency)
                /\ \A j \in 1..Len(result[c][k].transactions) :
                      LET t == result[c][k].transactions[j]
                          raw == accounts[c].transactions[t.transactionId]
                      IN  Resolves(raw.iso_currency_code,
                                   raw.unofficial_currency_code, t.currency)

\* C12 happens: a resolved call with an account that has both codes and one
\* whose ISO code is the empty string beside an unofficial code, and with
\* transactions of each of the nine kinds: each code a string, absent, or
\* the empty string.
CurrencyResolvedWitness ==
    /\ fpc["A"] = "done"
    /\ InfoFetched(accounts["A"]) \in flog["A"]
    /\ Len(result["A"]) = 2
    /\ result["A"][1].currency = Some("USD")
    /\ ~IsNone(Get(accounts["A"].accounts[1].balances).unofficial_currency_code)
    /\ Get(accounts["A"].accounts[2].balances).iso_currency_code = Some("")
    /\ result["A"][2].currency = Some("BTC")
    /\ \A iso \in {None, Some(""), Some("USD")} :
       \A unofficial \in {None, Some(""), Some("BTC")} :
          \E j \in 1..Len(result["A"][1].transactions) :
              LET t == result["A"][1].transactions[j]
                  raw == accounts["A"].transactions[t.transactionId]
              IN  /\ raw.iso_currency_code = iso
                  /\ raw.unofficial_currency_code = unofficial
                  /\ t.currency = (IF Carries(iso) THEN iso ELSE unofficial)

\* C13: the k-th request of a call (k = 0, 1, 2, ...) carries offset 500*k
\* and count 500, with the token of the call's account and the date range
\* of the first request; at most one request is unanswered at any time, and
\* request k+1 is issued only by the step in which request k is answered.
SequentialRequests ==
    /\ [](\A c \in Calls :
            /\ Len(requests[c]) - answered[c] \in {0, 1}
            /\ \A k \in 1..Len(requests[c]) :
                  /\ requests[c][k].options = [count |-> 500, offset |-> 500 * (k - 1)]
                  /\ requests[c][k].token = AccountConfig(c).token
                  /\ requests[c][k].start = requests[c][1].start
                  /\ requests[c][k].end = requests[c][1].end)
    /\ [][\A c \in Calls :
            Len(requests'[c]) > Len(requests[c]) =>
                /\ Len(requests'[c]) = Len(requests[c]) + 1
                /\ answered'[c] = Len(requests[c])
                /\ SubSeq(requests'[c], 1, Len(requests[c])) = requests[c]]_vars

\* C13 happens: the third request, at offset 1000, is in flight after two
\* answered requests.
SequentialRequestsWitness ==
    /\ Len(requests["A"]) = 3
    /\ answered["A"] = 2
    /\ fpc["A"] = "await_next"
    /\ requests["A"][3].options.offset = 1000

\* C14: when the k-th page request fails (any k >= 0) with error e, the
\* promise of fetchPagedTransactions is rejected with e; from then on no
\* request is issued and the rejection stands; and the pages fetched before
\* the failure reach no caller: the .then callback never runs on them and
\* fetchAccount settles with the empty list.
FailureRejectsWhole ==
    /\ [][\A c \in Calls : \A e \in PageErrors :
            PageFailure(c, e) =>
                /\ paged'[c] = "rejected"
                /\ rejection'[c] = Some(e)
                /\ requests'[c] = requests[c]]_vars
    /\ [][\A c \in Calls :
            paged[c] = "rejected" =>
                /\ paged'[c] = "rejected"
                /\ rejection'[c] = rejection[c]
                /\ requests'[c] = requests[c]]_vars
    /\ [](\A c \in Calls :
            paged[c] = "rejected" =>
                /\ answered[c] = Len(requests[c])
                /\ fpc[c] \in {"catch", "done"}
                /\ InfoFetched(accounts[c]) \notin flog[c]
                /\ result[c] = << >>)

\* C14 happens: the third request failed after two full pages had been
\* accumulated, and fetchAccount has settled.
FailureRejectsWholeWitness ==
    /\ paged["A"] = "rejected"
    /\ rejection["A"] = Some("RATE_LIMIT_EXCEEDED")
    /\ answered["A"] = 3
    /\ Len(accounts["A"].transactions) = 2 * Count
    /\ fpc["A"] = "done"
    /\ outcome["A"] = "resolved"

\* A request of call c is in flight.
Awaiting(c) == fpc[c] \in {"await_first", "await_next"}

\* What call c has accumulated once the response now due has arrived.
DueCount(c) ==
    Len(GetTransactions(provider[c], options[c].offset, options[c].count).transactions)
        + (IF fpc[c] = "await_first" THEN 0 ELSE Len(accounts[c].transactions))

\* The total the loop of call c compares with once the response now due
\* has arrived.
DueTotal(c) ==
    IF fpc[c] = "await_first"
    THEN GetTransactions(provider[c], 0, options[c].count).total_transactions
    ELSE accounts[c].total_transactions

\* The response now due is an empty page that leaves the accumulated count
\* below the total.
EmptyPageDue(c) ==
    /\ Awaiting(c)
    /\ GetTransactions(provider[c], options[c].offset, options[c].count).transactions = << >>
    /\ DueCount(c) < DueTotal(c)

\* C15: termination of the pagination loop. A response after which the
\* accumulated count is >= the total resolves the promise and issues no
\* request, one after which it is below the total issues exactly the next
\* request, and a resolved call issues no request any more; when requests
\* are answered, the promise of fetchPagedTransactions settles unless an
\* empty page arrives while the count is below the total; and a call that
\* awaits for ever is one whose responses keep leaving the count below the
\* total.
LoopTerminates ==
    /\ [][\A c \in Calls :
            /\ PageResponse(c) =>
                  IF Len(accounts'[c].transactions) >= accounts'[c].total_transactions
                  THEN paged'[c] = "resolved" /\ requests'[c] = requests[c]
                  ELSE paged'[c] = "pending" /\ Len(requests'[c]) = Len(requests[c]) + 1
            /\ paged[c] = "resolved" => requests'[c] = requests[c]]_vars
    /\ \A c \in Calls :
          /\ Awaiting(c) ~> (paged[c] # "pending" \/ EmptyPageDue(c))
          /\ []<>(~Awaiting(c)) \/ <>[](Awaiting(c) /\ DueCount(c) < DueTotal(c))

\* C15 happens: against a provider that understates its total the loop has
\* stopped after the second page, at the first count that is not below the
\* total.
LoopTerminatesWitness ==
    /\ paged["A"] = "resolved"
    /\ Len(requests["A"]) = 2
    /\ accounts["A"].total_transactions > Count
    /\ Len(accounts["A"].transactions) > accounts["A"].total_transactions

\* ceil(n / 500)
CeilPages(n) == (n + 499) \div 500

\* C16 as claimed: against a consistent provider with total T >= 0 a call
\* issues at most ceil(T/500) page requests.
RoundTripsAtMostCeil ==
    \A c \in Calls :
        IsConsistent(provider[c]) =>
            Len(requests[c]) <= CeilPages(Len(provider[c].list))

\* C16 amended: against a consistent provider with total T >= 0 a call
\* issues at most max(1, ceil(T/500)) page requests, and exactly that many
\* when it resolves: the first request is issued before any total is known.
RoundTripsBounded ==
    \A c \in Calls :
        IsConsistent(provider[c]) =>
            LET T == Len(provider[c].list)
                most == IF T = 0 THEN 1 ELSE CeilPages(T)
            IN  /\ Len(requests[c]) <= most
                /\ paged[c] = "resolved" => Len(requests[c]) = most

\* C16 happens: a call against a provider with exactly two full pages has
\* resolved after two requests.
RoundTripsBoundedWitness ==
    /\ paged["A"] = "resolved"
    /\ Len(provider["A"].list) = 2 * Count
    /\ Len(requests["A"]) = 2

\* C20: the total the loop compares with, and the total_transactions and
\* accounts of the resolved result, are those of the first response: a
\* later response only adds its transactions at the end, the loop goes on
\* exactly while the count is below the first total, and the accounts
\* fetchAccount returns are the accounts of the first response.
FirstResponseRules ==
    /\ [](\A c \in Calls :
            (fpc[c] = "await_next" \/ paged[c] = "resolved") =>
                LET first == GetTransactions(provider[c], 0, 500)
                    n == Len(accounts[c].transactions)
                IN  /\ accounts[c].total_transactions = first.total_transactions
                    /\ accounts[c].accounts = first.accounts
                    /\ fpc[c] = "await_next" => n < first.total_transactions
                    /\ paged[c] = "resolved" => n >= first.total_transactions
                    /\ (fpc[c] = "done" /\ InfoFetched(accounts[c]) \in flog[c]) =>
                          /\ Len(result[c]) = Len(first.accounts)
                          /\ \A k \in 1..Len(result[c]) :
                                result[c][k].accountId = first.accounts[k].account_id)
    /\ [][\A c \in Calls :
            (PageResponse(c) /\ fpc[c] = "await_next") =>
                accounts'[c].transactions =
                    accounts[c].transactions \o
                        GetTransactions(provider[c], options[c].offset, 500).transactions]_vars

\* C20 happens: a call has resolved after three requests against a provider
\* whose later responses report a larger total and no accounts.
FirstResponseRulesWitness ==
    /\ fpc["A"] = "done"
    /\ InfoFetched(accounts["A"]) \in flog["A"]
    /\ Len(requests["A"]) = 3
    /\ provider["A"].laterTotal > provider["A"].total
    /\ provider["A"].laterAccounts = << >>
    /\ Len(result["A"]) = 2
    /\ accounts["A"].total_transactions = provider["A"].total

\* ------------------------------------------------------------------------
\* addAccount: the Credential Store
\* ------------------------------------------------------------------------
ItemIds == {"itemX", "itemY", "3"}
AccessTokens == {"accA", "accB"}

\* plaid.TokenResponse
TokenResponses == [item_id : ItemIds, access_token : AccessTokens]

\* The array index a key stands for, -1 for a key that is not the canonical
\* text of an array index.
ArrayIndex(id) ==
    CASE id = "3" -> 3
      [] id = "7" -> 7
      [] OTHER -> -1

\* config.accounts is a JavaScript object: a sequence of entries with
\* distinct ids, in the order the object lists its keys: the array indices
\* first, ascending, then the other keys in insertion order.
IndexOf(accts, id) ==
    IF \E i \in 1..Len(accts) : accts[i].id = id
    THEN CHOOSE i \in 1..Len(accts) : accts[i].id = id
    ELSE 0

\* Where a new key is listed: an array index after the smaller array
\* indices, any other key at the end.
PlaceOf(accts, id) ==
    IF ArrayIndex(id) >= 0
    THEN 1 + Cardinality({ i \in 1..Len(accts) :
                              /\ ArrayIndex(accts[i].id) >= 0
                              /\ ArrayIndex(accts[i].id) < ArrayIndex(id) })
    ELSE Len(accts) + 1

\* accts[entry.id] = entry: an existing key keeps its place, a new key is
\* listed at its place.
Assign(accts, entry) ==
    IF IndexOf(accts, entry.id) = 0
    THEN LET at == PlaceOf(accts, entry.id)
         IN  SubSeq(accts, 1, at - 1) \o <<entry>> \o SubSeq(accts, at, Len(accts))
    ELSE [accts EXCEPT ![IndexOf(accts, entry.id)] = entry]

\* { id: tokenResponse.item_id, integration: IntegrationId.Plaid,
\*   token: tokenResponse.access_token }
AccountEntry(tokenResponse) ==
    [id |-> tokenResponse.item_id, integration |-> PLAID,
     token |-> tokenResponse.access_token]

\* A variant of SavePublicTokenTransform that replaces the whole map by the
\* new entry.
SavePublicTokenTransformDropsOthers(config, tokenResponse) ==
    <<AccountEntry(tokenResponse)>>

\* The transformer savePublicToken hands to updateConfig, on config.accounts.
SavePublicTokenTransform(config, tokenResponse) ==
    Assign(config, AccountEntry(tokenResponse))

\* updateConfig (lib/config): the transformer is applied to the stored
\* configuration, and what it returns is persisted.
LoadConfig == store
UpdateConfig(newConfig) == store' = newConfig

\* savePublicToken on a token response that is present.
SavePublicToken(tokenResponse) ==
    LET config == SavePublicTokenTransform(LoadConfig, tokenResponse)
    IN  /\ UpdateConfig(config)
        /\ thisConfig' = config

\* The stores a server may start with.
InitialStores ==
    { << >>,
      << [id |-> "7", integration |-> PLAID, token |-> "accA"] >>,
      << [id |-> "itemY", integration |-> PLAID, token |-> "accB"],
         [id |-> "itemX", integration |-> PLAID, token |-> "accA"] >> }

\* ------------------------------------------------------------------------
\* addAccount: the promise, the requests, the log
\* ------------------------------------------------------------------------
\* resolve / reject of the promise addAccount returns: only the first call
\* settles it.
Resolve(p) == IF p = "pending" THEN "resolved" ELSE p
Reject(p) == IF p = "pending" THEN "rejected" ELSE p

LOG_SAVED == "Plaid access token saved."
LOG_CANCELLED == "Plaid authentication cancelled."
LOG_EXCHANGE_ERROR == "Encountered error exchanging Plaid public token."
LOG_AUTH_ERROR == "Encountered error during authentication."

\* JSON null as the value of a body field that is present.
JsonNull == "null"
JsonTrue == "true"

\* req.body: each of public_token, exit and error (POST /get_access_token)
\* and of token (POST /exchangeAccessToken) is undefined (None) or present
\* with its JSON value, null included.
Body(publicToken, exit, error) ==
    [public_token |-> publicToken, exit |-> exit, error |-> error, token |-> None]

TokenBody(token) == [Body(None, None, None) EXCEPT !.token = token]

EmptyBody == Body(None, None, None)

Bodies ==
    { Body(Some("tok1"), None, None),
      Body(None, Some(JsonTrue), None),
      Body(None, None, Some("link error")),
      Body(Some("tok1"), Some(JsonTrue), None),
      Body(Some(JsonNull), Some(JsonTrue), None),
      Body(None, Some(JsonNull), None) }

Request(path, body) == [path |-> path, body |-> body]

ClientRequests ==
    { Request("/get_access_token", b) : b \in Bodies }
        \cup { Request("/accounts", EmptyBody), Request("/done", EmptyBody) }
        \cup { Request("/exchangeAccessToken", TokenBody(Some("accA"))) }

AccountsPosts(q) == Len(SelectSeq(q, LAMBDA r : r.path = "/accounts"))
ReissuePosts(q) == Len(SelectSeq(q, LAMBDA r : r.path = "/exchangeAccessToken"))

\* What client.createPublicToken may settle with: a public token, or a
\* rejection.
ReissueOutcomes ==
    { [error |-> FALSE, public_token |-> "public-tok2"],
      [error |-> TRUE, public_token |-> ""] }

\* What client.exchangePublicToken may hand to its callback as (error,
\* tokenResponse): a response and no error, or an error with no response or
\* with a response object.
ExchangeOutcomes ==
    { <<None, Some(r)>> : r \in TokenResponses }
        \cup { <<Some("exchange error"), None>> }
        \cup { <<Some("exchange error"), Some(r)>> : r \in TokenResponses }

\* What client.getAccounts may settle with: a response with accounts, a
\* response without any, or a rejection.
LookupOutcomes ==
    { [error |-> FALSE, accounts |-> << [name |-> "Real Name A"] >>],
      [error |-> FALSE, accounts |-> << >>],
      [error |-> TRUE, accounts |-> << >>] }

ERROR_NAME == "Error fetching account name"

\* Whether the name lookup of one account fails: getAccounts rejects, or
\* reading resp.accounts[0].name throws.
LookupThrows(out) == out.error \/ Len(out.accounts) = 0

\* A variant of NameEntry that lets the provider's answer through unchecked.
NameEntryNoCatch(out, account) ==
    [name |-> IF Len(out.accounts) = 0 THEN "undefined" ELSE out.accounts[1].name,
     token |-> account.token]

\* The async mapper of the /accounts handler on one account.
NameEntry(out, account) ==
    IF LookupThrows(out)
    THEN [name |-> ERROR_NAME, token |-> account.token]
    ELSE [name |-> out.accounts[1].name, token |-> account.token]

\* A variant of HasPublicToken that also takes an exit post for a token post.
HasPublicTokenOrExit(body) == ~IsNone(body.public_token) \/ ~IsNone(body.exit)

\* req.body.public_token !== undefined: a null token is a token
HasPublicToken(body) == ~IsNone(body.public_token)

\* req.body.exit !== undefined: a null exit is an exit
HasExit(body) == ~IsNone(body.exit)

\* A variant of ExitSettles in which cancelling rejects the promise.
ExitSettlesRejects(p) == Reject(p)

\* resolve(logInfo('Plaid authentication cancelled.'))
ExitSettles(p) == Resolve(p)

\* ------------------------------------------------------------------------
\* addAccount: the client, the handlers and the callbacks
\* ------------------------------------------------------------------------
\* The client sends a request. A new connection is accepted only while the
\* server listens. server.close() leaves the connections that are open to
\* the runtime: on some runtimes an idle keep-alive connection stays open,
\* and a client that has posted before may post on it again. The handler of
\* an accepted request runs later, also after a close.
ClientPost(req) ==
    /\ running
    /\ listening \/ posts > 0
    /\ posts < MaxPosts
    /\ req.path = "/accounts" => AccountsPosts(inbox) + Len(listings) < MaxListings
    /\ req.path = "/exchangeAccessToken" =>
            ReissuePosts(inbox) + Len(reissues) < MaxReissues
    /\ posts' = posts + 1
    /\ inbox' = Append(inbox, req)
    /\ UNCHANGED <<listening, closeCalls, replied, exchanging, promise, store,
                   thisConfig, logged, uncaught, listings, reissues>>
    /\ UNCHANGED running
    /\ UNCHANGED fetchVars

\* app.post('/get_access_token', ...)
GetAccessToken ==
    /\ running
    /\ inbox # << >>
    /\ Head(inbox).path = "/get_access_token"
    /\ LET body == Head(inbox).body
       IN  IF HasPublicToken(body)
           THEN /\ exchanging' = exchanging + 1
                /\ UNCHANGED <<promise, logged>>
           ELSE IF HasExit(body)
           THEN /\ promise' = ExitSettles(promise)
                /\ logged' = logged \cup {LOG_CANCELLED}
                /\ UNCHANGED exchanging
           ELSE /\ promise' = Reject(promise)
                /\ logged' = logged \cup {LOG_AUTH_ERROR}
                /\ UNCHANGED exchanging
    /\ replied' = replied + 1
    /\ inbox' = Tail(inbox)
    /\ UNCHANGED <<listening, closeCalls, posts, store, thisConfig, uncaught, listings,
                   reissues>>
    /\ UNCHANGED running
    /\ UNCHANGED fetchVars

\* An error that nothing in the integration catches: a throw in a callback
\* or the rejection of an async handler. What follows is the runtime's
\* choice: the process goes on, or it ends and the listener with it.
Escapes ==
    /\ uncaught' = TRUE
    /\ \E ends \in BOOLEAN :
          /\ running' = ~ends
          /\ listening' = (listening /\ ~ends)

\* The callback of client.exchangePublicToken. There is no return after the
\* reject: savePublicToken(tokenResponse) runs on an error as well, and
\* throws a TypeError when tokenResponse is missing.
ExchangeCallback(error, tokenResponse) ==
    /\ running
    /\ exchanging > 0
    /\ exchanging' = exchanging - 1
    /\ LET rejected == ~IsNone(error)
           p == IF rejected THEN Reject(promise) ELSE promise
           l == IF rejected THEN logged \cup {LOG_EXCHANGE_ERROR} ELSE logged
       IN  IF IsNone(tokenResponse)
           THEN /\ Escapes
                /\ promise' = p
                /\ logged' = l
                /\ UNCHANGED <<store, thisConfig>>
           ELSE /\ SavePublicToken(Get(tokenResponse))
                /\ promise' = Resolve(p)
                /\ logged' = l \cup {LOG_SAVED}
                /\ UNCHANGED <<uncaught, running, listening>>
    /\ UNCHANGED <<closeCalls, posts, inbox, replied, listings, reissues>>
    /\ UNCHANGED fetchVars

\* app.post('/accounts', ...) up to its await: one getAccounts lookup per
\* entry of this.config.accounts is started.
AccountsHandler ==
    /\ running
    /\ inbox # << >>
    /\ Head(inbox).path = "/accounts"
    /\ listings' = Append(listings,
                          [accounts |-> thisConfig,
                           lookups |-> [i \in 1..Len(thisConfig) |-> None],
                           entries |-> [i \in 1..Len(thisConfig) |-> None],
                           response |-> None,
                           responses |-> 0])
    /\ inbox' = Tail(inbox)
    /\ UNCHANGED <<listening, closeCalls, posts, replied, exchanging, promise, store,
                   thisConfig, logged, uncaught, reissues>>
    /\ UNCHANGED running
    /\ UNCHANGED fetchVars

\* The lookup of account i of listing l settles with `out`; its mapper
\* produces the entry of that account.
LookupSettles(l, i, out) ==
    /\ running
    /\ IsNone(listings[l].lookups[i])
    /\ listings' = [listings EXCEPT
                        ![l].lookups[i] = Some(out),
                        ![l].entries[i] = Some(NameEntry(out, listings[l].accounts[i]))]
    /\ UNCHANGED <<listening, closeCalls, posts, inbox, replied, exchanging, promise,
                   store, thisConfig, logged, uncaught, reissues>>
    /\ UNCHANGED running
    /\ UNCHANGED fetchVars

\* Whether Promise.all of a listing has resolved.
AllSettled(listing) ==
    \A i \in 1..Len(listing.entries) : ~IsNone(listing.entries[i])

\* Promise.all has resolved: return res.json(accounts).
AccountsRespond(l) ==
    /\ running
    /\ AllSettled(listings[l])
    /\ listings[l].responses = 0
    /\ listings' = [listings EXCEPT
                        ![l].response = Some(listings[l].entries),
                        ![l].responses = @ + 1]
    /\ UNCHANGED <<listening, closeCalls, posts, inbox, replied, exchanging, promise,
                   store, thisConfig, logged, uncaught, reissues>>
    /\ UNCHANGED running
    /\ UNCHANGED fetchVars

\* app.post('/done', ...): res.json({}), then server.close().
Done ==
    /\ running
    /\ inbox # << >>
    /\ Head(inbox).path = "/done"
    /\ replied' = replied + 1
    /\ closeCalls' = closeCalls + 1
    /\ listening' = FALSE
    /\ inbox' = Tail(inbox)
    /\ UNCHANGED <<posts, exchanging, promise, store, thisConfig, logged, uncaught,
                   listings, reissues>>
    /\ UNCHANGED running
    /\ UNCHANGED fetchVars

\* app.post('/exchangeAccessToken', ...) up to its await:
\* this.client.createPublicToken(req.body.token) is called.
ExchangeAccessTokenHandler ==
    /\ running
    /\ inbox # << >>
    /\ Head(inbox).path = "/exchangeAccessToken"
    /\ reissues' = Append(reissues,
                          [accessToken |-> Head(inbox).body.token,
                           settled |-> FALSE, response |-> None])
    /\ inbox' = Tail(inbox)
    /\ UNCHANGED <<listening, closeCalls, posts, replied, exchanging, promise, store,
                   thisConfig, logged, uncaught, listings>>
    /\ UNCHANGED running
    /\ UNCHANGED fetchVars

\* createPublicToken of reissue i settles: res.json({ token: public_token })
\* on a token; on a rejection the async handler rejects, nothing is sent and
\* nothing handles the rejection.
CreatePublicTokenSettles(i, out) ==
    /\ running
    /\ ~reissues[i].settled
    /\ IF out.error
       THEN /\ reissues' = [reissues EXCEPT ![i].settled = TRUE]
            /\ Escapes
            /\ UNCHANGED replied
       ELSE /\ reissues' = [reissues EXCEPT
                               ![i].settled = TRUE,
                               ![i].response = Some([token |-> out.public_token])]
            /\ replied' = replied + 1
            /\ UNCHANGED <<uncaught, running, listening>>
    /\ UNCHANGED <<closeCalls, posts, inbox, exchanging, promise, store,
                   thisConfig, logged, listings>>
    /\ UNCHANGED fetchVars

\* addAccount has been called: the server listens and the promise is pending.
InitServer ==
    /\ FetchUnused
    /\ running = TRUE
    /\ listening = TRUE
    /\ closeCalls = 0
    /\ posts = 0
    /\ inbox = << >>
    /\ replied = 0
    /\ exchanging = 0
    /\ promise = "pending"
    /\ store \in InitialStores
    /\ thisConfig = store
    /\ logged = {}
    /\ uncaught = FALSE
    /\ listings = << >>
    /\ reissues = << >>

\* The steps the server takes on its own, once a request is accepted or a
\* provider call has been made.
ServerStep ==
    \/ GetAccessToken
    \/ \E o \in ExchangeOutcomes : ExchangeCallback(o[1], o[2])
    \/ AccountsHandler
    \/ \E l \in 1..Len(listings) :
          \E i \in 1..Len(listings[l].accounts) :
             \E out \in LookupOutcomes : LookupSettles(l, i, out)
    \/ \E l \in 1..Len(listings) : AccountsRespond(l)
    \/ ExchangeAccessTokenHandler
    \/ \E i \in 1..Len(reissues) :
          \E out \in ReissueOutcomes : CreatePublicTokenSettles(i, out)
    \/ Done

NextServer ==
    \/ \E req \in ClientRequests : ClientPost(req)
    \/ ServerStep

SpecServer == InitServer /\ [][NextServer]_vars

\* The event loop runs every handler and callback that is due; the client
\* is free to send nothing more.
SpecServerFair == SpecServer /\ WF_vars(ServerStep)

\* ------------------------------------------------------------------------
\* Properties of the handshake server
\* ------------------------------------------------------------------------
\* The step in which the exchange callback runs with outcome o.
ExchangeStep(o) == ExchangeCallback(o[1], o[2])

SuccessOutcomes == { o \in ExchangeOutcomes : IsNone(o[1]) }
FailureOutcomes == { o \in ExchangeOutcomes : ~IsNone(o[1]) }

\* The step in which the handler of an exit post without public token
\* runs: the body has an exit field and no public_token field.
ExitPostStep ==
    /\ GetAccessToken
    /\ IsNone(Head(inbox).body.public_token)
    /\ ~IsNone(Head(inbox).body.exit)

\* The entries of a store under keys other than id, in the store's order.
Others(accts, id) == SelectSeq(accts, LAMBDA e : e.id # id)

\* `after` is `before` with key r.item_id mapped to the entry of r: the
\* key occurs once and holds the entry, an existing key is overwritten where
\* it stands, a new key is added, and every other entry stays as it was
\* and in the same order among the others.
StoredIn(before, after, r) ==
    LET entry == [id |-> r.item_id, integration |-> "plaid", token |-> r.access_token]
        known == \E i \in 1..Len(before) : before[i].id = r.item_id
    IN  /\ Len(after) = IF known THEN Len(before) ELSE Len(before) + 1
        /\ Others(after, r.item_id) = Others(before, r.item_id)
        /\ \E i \in 1..Len(after) : after[i] = entry
        /\ known => \A i \in 1..Len(before) :
                        before[i].id = r.item_id => after[i] = entry

\* C4: when the exchange of a posted public token succeeds with (item_id X,
\* access_token A), the Credential Store afterwards is the previous store
\* with key X mapped to { id: X, integration: plaid, token: A }: a new key is
\* inserted, an existing key overwritten in place, every other entry
\* unchanged.
ExchangePersists ==
    [][\A o \in SuccessOutcomes :
          ExchangeStep(o) => StoredIn(store, store', Get(o[2]))]_vars

\* C4 happens: the token of itemX has been rotated from accA to accB beside
\* an untouched entry of itemY.
ExchangePersistsWitness ==
    /\ LOG_SAVED \in logged
    /\ Len(store) = 2
    /\ store[1] = [id |-> "itemY", integration |-> PLAID, token |-> "accB"]
    /\ store[2] = [id |-> "itemX", integration |-> PLAID, token |-> "accB"]

\* C5: the handler of an exit post without public token cancels the
\* handshake without issuing an exchange request, and the Credential Store
\* is the same before and after.
ExitCancels ==
    [][ExitPostStep =>
          /\ LOG_CANCELLED \in logged'
          /\ exchanging' = exchanging
          /\ store' = store
          /\ thisConfig' = thisConfig]_vars

\* C5 happens: a handshake on a non-empty store was cancelled, nothing was
\* exchanged or saved.
ExitCancelsWitness ==
    /\ logged = {LOG_CANCELLED}
    /\ exchanging = 0
    /\ Len(store) = 2

\* C6: when the exchange of a posted public token fails, the handshake
\* fails and is not persisted for that exchange: savePublicToken has no
\* effect (it neither writes nor throws) and the Credential Store is
\* unchanged.
FailedExchangePersistsNothing ==
    [][\A o \in FailureOutcomes :
          ExchangeStep(o) =>
              /\ LOG_EXCHANGE_ERROR \in logged'
              /\ LOG_SAVED \in logged' => LOG_SAVED \in logged
              /\ store' = store
              /\ thisConfig' = thisConfig
              /\ uncaught' = uncaught]_vars

\* C7 as claimed: a pending promise of addAccount is rejected, and not
\* resolved, both by an exit post and by a failed exchange.
ExitAndFailureReject ==
    [][/\ (promise = "pending" /\ ExitPostStep) => promise' = "rejected"
       /\ \A o \in FailureOutcomes :
             (promise = "pending" /\ ExchangeStep(o)) => promise' = "rejected"]_vars

\* C7 amended: a pending promise of addAccount is rejected, and not
\* resolved, by a failed exchange, and it is resolved, not rejected, by an
\* exit post; a promise that is already settled is left as it is by both.
FailureRejectsExitResolves ==
    [][/\ ExitPostStep =>
             promise' = IF promise = "pending" THEN "resolved" ELSE promise
       /\ \A o \in FailureOutcomes :
             ExchangeStep(o) =>
                 promise' = IF promise = "pending" THEN "rejected" ELSE promise]_vars

\* C7 happens: the promise was resolved by an exit post alone.
FailureRejectsExitResolvesWitness ==
    /\ promise = "resolved"
    /\ logged = {LOG_CANCELLED}

\* The handshake has reached Persisted, Cancelled or Failed.
HandshakeEnded ==
    logged \cap {LOG_SAVED, LOG_CANCELLED, LOG_EXCHANGE_ERROR, LOG_AUTH_ERROR} # {}

\* C8: once the handshake has reached Persisted, Cancelled or Failed the
\* listener is eventually closed, also when the client sends no 'done' post
\* afterwards.
ListenerReleased == HandshakeEnded ~> ~listening

\* C9: the close of the listener is invoked at most once per server
\* instance, whatever the client sends (a repeated /done post included), and
\* once a handshake has ended no further handshake post is served by the
\* closed instance.
ClosedOnce ==
    /\ [](closeCalls <= 1)
    /\ [][(GetAccessToken /\ HandshakeEnded) => listening]_vars

\* What the response of a listing holds for account i.
ExpectedEntry(listing, i) ==
    LET out == Get(listing.lookups[i])
    IN  [name |-> IF ~out.error /\ Len(out.accounts) > 0
                  THEN out.accounts[1].name
                  ELSE "Error fetching account name",
         token |-> listing.accounts[i].token]

\* C10: POST /accounts responds once, only after the name lookup of every
\* linked account has settled, with one entry per linked account in
\* Credential Store order: the provider's name and the token when the
\* account's name lookup succeeded, 'Error fetching account name' and the
\* token when it failed, whichever lookups fail and in whatever order they
\* complete.
AccountsListed ==
    /\ [](\A l \in 1..Len(listings) :
            /\ listings[l].responses <= 1
            /\ listings[l].responses = 1 =>
                  LET response == Get(listings[l].response)
                  IN  /\ Len(response) = Len(listings[l].accounts)
                      /\ \A i \in 1..Len(response) :
                            /\ ~IsNone(listings[l].lookups[i])
                            /\ response[i] = Some(ExpectedEntry(listings[l], i)))
    /\ [][AccountsHandler =>
             listings'[Len(listings')].accounts = store]_vars

\* C10 happens: a listing of two accounts has been answered, the first
\* with its name, the second with the placeholder.
AccountsListedWitness ==
    \E l \in 1..Len(listings) :
        /\ listings[l].responses = 1
        /\ Len(listings[l].accounts) = 2
        /\ Get(listings[l].response)[1] =
              Some([name |-> "Real Name A", token |-> listings[l].accounts[1].token])
        /\ Get(listings[l].response)[2] =
              Some([name |-> ERROR_NAME, token |-> listings[l].accounts[2].token])

\* C17: Closed is terminal: once the listener has been closed by a 'done'
\* post no handshake transition follows. Stated for the transition the
\* claim singles out: after the close no step writes a credential, neither
\* to the Credential Store nor to this.config.
ClosedIsTerminal ==
    [][closeCalls > 0 => (store' = store /\ thisConfig' = thisConfig)]_vars

\* An exchange has been started on this server: one is in flight, or one
\* has called back (every callback logs its success or its failure).
ExchangeStarted ==
    exchanging > 0 \/ logged \cap {LOG_SAVED, LOG_EXCHANGE_ERROR} # {}

\* C18: the handshake is one-shot. On one server instance, whatever is
\* posted to /get_access_token, an exchange is started only when none has
\* been started before, the Credential Store is written at most once, and
\* once the handshake is Cancelled or Failed no step persists a credential.
OneShot ==
    [][/\ exchanging' > exchanging => ~ExchangeStarted
       /\ LOG_SAVED \in logged => store' = store
       /\ logged \cap {LOG_CANCELLED, LOG_EXCHANGE_ERROR, LOG_AUTH_ERROR} # {} =>
             store' = store]_vars

\* C19: the Credential Store is modified only by a successful public-token
\* exchange: a step that changes the store is the callback of an exchange
\* that reported no error. In particular the handlers of /accounts,
\* /exchangeAccessToken and /done, their provider calls, and an error post
\* to /get_access_token leave the store as it is.
StoreFrame ==
    [][store' # store => \E o \in SuccessOutcomes : ExchangeStep(o)]_vars

====
